---- MODULE Spec2Model ----
(***************************************************************************)
(* The repository consists of five C preprocessor headers: four config.h   *)
(* files (one per firmware sketch) and oled_driver.h.  The only behaviour  *)
(* they have is what the preprocessor does with them, so the model is the  *)
(* preprocessor working through a translation unit: it includes headers,   *)
(* walks them line by line, evaluates the #ifndef include guards and       *)
(* binds macro names to replacement lists.  Every header is transcribed    *)
(* line for line (index in the sequence = line number in the file).        *)
(***************************************************************************)
EXTENDS Integers, Sequences, FiniteSets, TLC

(***************************************************************************)
(* Bound of the model: number of #include directives of repository         *)
(* headers in one translation unit.                                        *)
(***************************************************************************)
MaxIncludes == 3

(***************************************************************************)
(* Replacement lists.  A replacement list is kept as spelled in the file.  *)
(***************************************************************************)
Str(s) == [kind |-> "str", text |-> s]
Num(s) == [kind |-> "num", text |-> s]
Empty == [kind |-> "empty", text |-> ""]
Undef == [kind |-> "undef", text |-> ""]

(***************************************************************************)
(* Lines of a header.                                                      *)
(***************************************************************************)
Text == [op |-> "text", name |-> "", body |-> Empty]
Ifndef(n) == [op |-> "ifndef", name |-> n, body |-> Empty]
Define(n, b) == [op |-> "define", name |-> n, body |-> b]
Endif == [op |-> "endif", name |-> "", body |-> Empty]
SysInclude(h) == [op |-> "sysinclude", name |-> h, body |-> Empty]

(***************************************************************************)
(* src/Task2_PriorityGuardian/config.h                                     *)
(***************************************************************************)
Task2Guard ==
  << Ifndef("CONFIG_H"),
     Define("CONFIG_H", Empty),
     Text >>

Task2Network ==
  << Text,
     Define("WIFI_SSID", Str("vivo V30 Pro")),
     Define("WIFI_PASSWORD", Str("micromax")),
     Text,
     Text,
     Define("MQTT_BROKER", Str("broker.mqttdashboard.com")),
     Define("MQTT_PORT", Num("1883")),
     Text,
     Text,
     Define("TEAM_ID", Str("aniruddhyembedded")),
     Define("REEF_ID", Str("aniruddhyelluriyembedded")),
     Text >>

(* Variant of the pin section: the button wired to the red LED's pin. *)
Task2PinsButtonOnRed ==
  << Text,
     Define("LED_RED", Num("18")),
     Define("LED_GREEN", Num("19")),
     Define("LED_BLUE", Num("23")),
     Define("BUTTON_PIN", Num("18")),
     Text >>

Task2Pins ==
  << Text,
     Define("LED_RED", Num("18")),
     Define("LED_GREEN", Num("19")),
     Define("LED_BLUE", Num("23")),
     Define("BUTTON_PIN", Num("4")),
     Text >>

Task2Oled ==
  << Text,
     Define("OLED_SDA", Num("21")),
     Define("OLED_SCL", Num("22")),
     Define("OLED_ADDR", Num("0x3C")),
     Text >>

Task2Close ==
  << Endif,
     Text >>

Task2Config ==
  Task2Guard \o Task2Network \o Task2Pins \o Task2Oled \o Task2Close

(***************************************************************************)
(* src/Task2_PriorityGuardian/priority_guardian/config.h                   *)
(***************************************************************************)
(* Variant of the guard: a guard name of its own instead of CONFIG_H. *)
GuardianGuardOwnName ==
  << Ifndef("GUARDIAN_CONFIG_H"),
     Define("GUARDIAN_CONFIG_H", Empty),
     Text >>

GuardianGuard ==
  << Ifndef("CONFIG_H"),
     Define("CONFIG_H", Empty),
     Text >>

(* Variant of the network section: the broker's TLS port. *)
GuardianNetworkTlsPort ==
  << Text,
     Define("WIFI_SSID", Str("vivohotspot")),
     Define("WIFI_PASSWORD", Str("micromax")),
     Text,
     Text,
     Define("MQTT_BROKER", Str("broker.mqttdashboard.com")),
     Define("MQTT_PORT", Num("8883")),
     Text,
     Text,
     Define("TEAM_ID", Str("aniruddhyembedded")),
     Define("REEF_ID", Str("aniruddhyelluriyembedded")),
     Text >>

GuardianNetwork ==
  << Text,
     Define("WIFI_SSID", Str("vivohotspot")),
     Define("WIFI_PASSWORD", Str("micromax")),
     Text,
     Text,
     Define("MQTT_BROKER", Str("broker.mqttdashboard.com")),
     Define("MQTT_PORT", Num("1883")),
     Text,
     Text,
     Define("TEAM_ID", Str("aniruddhyembedded")),
     Define("REEF_ID", Str("aniruddhyelluriyembedded")),
     Text >>

GuardianPins ==
  << Text,
     Define("DISTRESS_LED", Num("2")),
     Text >>

GuardianClose ==
  << Endif,
     Text >>

GuardianConfig ==
  GuardianGuard \o GuardianNetwork \o GuardianPins \o GuardianClose

(***************************************************************************)
(* src/Task3_WindowSync/config.h                                           *)
(***************************************************************************)
(* Variant of the guard: a guard name of its own instead of CONFIG_H. *)
Task3GuardOwnName ==
  << Ifndef("WINDOW_CONFIG_H"),
     Define("WINDOW_CONFIG_H", Empty),
     Text >>

Task3Guard ==
  << Ifndef("CONFIG_H"),
     Define("CONFIG_H", Empty),
     Text >>

Task3Network ==
  << Text,
     Define("WIFI_SSID", Str("crn_net")),
     Define("WIFI_PASSWORD", Str("crn_l016")),
     Text,
     Text,
     Define("MQTT_BROKER", Str("broker.mqttdashboard.com")),
     Define("MQTT_PORT", Num("1883")),
     Text,
     Text,
     Define("TEAM_ID", Str("aniruddhyembedded")),
     Define("REEF_ID", Str("aniruddhyelluriyembedded")),
     Text >>

(* Variant of the topic section: the topic left at another code. *)
Task3TopicNotUpdated ==
  << Text,
     Define("WINDOW_TOPIC", Str("abcdef_window")),
     Text >>

Task3Topic ==
  << Text,
     Define("WINDOW_TOPIC", Str("lkjhgf_window")),
     Text >>

Task3Pins ==
  << Text,
     Define("LED_RED", Num("18")),
     Define("LED_GREEN", Num("19")),
     Define("LED_BLUE", Num("23")),
     Define("BUTTON_PIN", Num("4")),
     Text >>

(* Variant of the display section: the display's alternate address. *)
Task3OledAltAddr ==
  << Text,
     Define("OLED_SDA", Num("21")),
     Define("OLED_SCL", Num("22")),
     Define("OLED_ADDR", Num("0x3D")),
     Text >>

Task3Oled ==
  << Text,
     Define("OLED_SDA", Num("21")),
     Define("OLED_SCL", Num("22")),
     Define("OLED_ADDR", Num("0x3C")),
     Text >>

Task3Close ==
  << Endif,
     Text >>

Task3Config ==
  Task3Guard \o Task3Network \o Task3Topic \o Task3Pins \o Task3Oled
    \o Task3Close

(***************************************************************************)
(* src/Task4_Steganography/config.h                                        *)
(***************************************************************************)
Task4Guard ==
  << Ifndef("CONFIG_H"),
     Define("CONFIG_H", Empty),
     Text >>

Task4Network ==
  << Text,
     Define("WIFI_SSID", Str("crn_net")),
     Define("WIFI_PASSWORD", Str("crn_l016")),
     Text,
     Text,
     Define("MQTT_BROKER", Str("broker.mqttdashboard.com")),
     Define("MQTT_PORT", Num("1883")),
     Text,
     Text,
     Define("TEAM_ID", Str("aniruddhyembedded")),
     Define("REEF_ID", Str("aniruddhyelluriyembedded")),
     Text >>

(* Variant of the task section: HIDDEN_MESSAGE spelled by macro name. *)
Task4SpecificByName ==
  << Text,
     Define("CHALLENGE_CODE", Str("lkjhgf")),
     Define("REQUEST_TOPIC", Str("kelpsaute/steganography")),
     Define("HIDDEN_MESSAGE", [kind |-> "ident", text |-> "CHALLENGE_CODE"]),
     Text >>

Task4Specific ==
  << Text,
     Define("CHALLENGE_CODE", Str("lkjhgf")),
     Define("REQUEST_TOPIC", Str("kelpsaute/steganography")),
     Define("HIDDEN_MESSAGE", Str("lkjhgf")),
     Text >>

Task4Close ==
  << Endif,
     Text >>

Task4Config ==
  Task4Guard \o Task4Network \o Task4Specific \o Task4Close

(***************************************************************************)
(* src/Task6_Submit/oled_driver.h                                          *)
(***************************************************************************)
OledGuard ==
  << Text, Text, Text, Text,
     Text,
     Ifndef("OLED_DRIVER_H"),
     Define("OLED_DRIVER_H", Empty),
     Text >>

OledIncludes ==
  << SysInclude("Wire.h"),
     SysInclude("Adafruit_GFX.h"),
     SysInclude("Adafruit_SSD1306.h"),
     Text >>

(* Variant of the defines: OLED_ADDR defined a second time. *)
OledDefinesAddrTwice ==
  << Define("SCREEN_WIDTH", Num("128")),
     Define("SCREEN_HEIGHT", Num("64")),
     Define("OLED_RESET", Num("-1")),
     Define("OLED_ADDR", Num("0x3C")),
     Define("I2C_SDA", Num("21")),
     Define("I2C_SCL", Num("22")),
     Define("OLED_ADDR", Num("0x3C")) >>

(* Variant of the defines: the clock pin past the last GPIO. *)
OledDefinesSclOutOfRange ==
  << Define("SCREEN_WIDTH", Num("128")),
     Define("SCREEN_HEIGHT", Num("64")),
     Define("OLED_RESET", Num("-1")),
     Define("OLED_ADDR", Num("0x3C")),
     Define("I2C_SDA", Num("21")),
     Define("I2C_SCL", Num("40")),
     Text >>

OledDefines ==
  << Define("SCREEN_WIDTH", Num("128")),
     Define("SCREEN_HEIGHT", Num("64")),
     Define("OLED_RESET", Num("-1")),
     Define("OLED_ADDR", Num("0x3C")),
     Define("I2C_SDA", Num("21")),
     Define("I2C_SCL", Num("22")),
     Text >>

OledClose ==
  << Endif >>

OledDriver ==
  OledGuard \o OledIncludes \o OledDefines \o OledClose

(***************************************************************************)
(* The headers of the repository.                                          *)
(***************************************************************************)
ConfigHeaders == {"T2", "T2G", "T3", "T4"}
Headers == ConfigHeaders \cup {"T6"}
None == "none"

Source(h) ==
  CASE h = "T2" -> Task2Config
    [] h = "T2G" -> GuardianConfig
    [] h = "T3" -> Task3Config
    [] h = "T4" -> Task4Config
    [] h = "T6" -> OledDriver

DefinesOf(h) ==
  { i \in DOMAIN Source(h) : Source(h)[i].op = "define" }

Names ==
  UNION { { Source(h)[i].name : i \in DefinesOf(h) } : h \in Headers }

VARIABLES macros, file, pc, cond, nIncl, diag, passDefs, entry, done,
          contributed, provided

vars == << macros, file, pc, cond, nIncl, diag, passDefs, entry, done,
           contributed, provided >>

Init ==
  /\ macros = [n \in Names |-> Undef]
  /\ file = None
  /\ pc = 0
  /\ cond = << >>
  /\ nIncl = 0
  /\ diag = {}
  /\ passDefs = << >>
  /\ entry = [n \in Names |-> Undef]
  /\ done = {}
  /\ contributed = {}
  /\ provided = [h \in Headers |-> << >>]

(***************************************************************************)
(* The line the preprocessor is at, and whether it is inside a group that  *)
(* is being processed (every enclosing conditional was taken).             *)
(***************************************************************************)
Cur == Source(file)[pc]

InFile == file # None /\ pc \in DOMAIN Source(file)

Active == \A i \in DOMAIN cond : cond[i]

(***************************************************************************)
(* The binding a list of processed #define directives leaves for a name:   *)
(* the last one wins.                                                      *)
(***************************************************************************)
Defines(defs, n) == { i \in DOMAIN defs : defs[i].name = n }

Lookup(defs, n) ==
  LET D == Defines(defs, n)
  IN  IF D = {} THEN Undef
      ELSE defs[CHOOSE i \in D : \A j \in D : j <= i].body

(***************************************************************************)
(* #include "header": the preprocessor enters the header at line 1.        *)
(***************************************************************************)
Include(h) ==
  /\ file = None
  /\ nIncl < MaxIncludes
  /\ file' = h
  /\ pc' = 1
  /\ cond' = << >>
  /\ passDefs' = << >>
  /\ entry' = macros
  /\ nIncl' = nIncl + 1
  /\ UNCHANGED << macros, diag, done, contributed, provided >>

(***************************************************************************)
(* A blank line or a comment line.                                         *)
(***************************************************************************)
TextLine ==
  /\ InFile
  /\ Cur.op = "text"
  /\ pc' = pc + 1
  /\ UNCHANGED << macros, file, cond, nIncl, diag, passDefs, entry, done,
                  contributed, provided >>

(***************************************************************************)
(* #ifndef NAME: opens a group, taken when NAME is not defined.            *)
(***************************************************************************)
IfndefLine ==
  /\ InFile
  /\ Cur.op = "ifndef"
  /\ cond' = Append(cond, Active /\ macros[Cur.name] = Undef)
  /\ pc' = pc + 1
  /\ UNCHANGED << macros, file, nIncl, diag, passDefs, entry, done,
                  contributed, provided >>

(***************************************************************************)
(* #define NAME body in a group that is processed.  Defining a name again  *)
(* with the same replacement list is allowed; with a different one the     *)
(* compiler diagnoses the redefinition and the new list replaces the old.  *)
(***************************************************************************)
DefineLine ==
  /\ InFile
  /\ Cur.op = "define"
  /\ Active
  /\ macros' = [macros EXCEPT ![Cur.name] = Cur.body]
  /\ diag' = IF macros[Cur.name] \in {Undef, Cur.body}
             THEN diag ELSE diag \cup {Cur.name}
  /\ passDefs' = Append(passDefs, [name |-> Cur.name, body |-> Cur.body])
  /\ contributed' = contributed \cup {file}
  /\ pc' = pc + 1
  /\ UNCHANGED << file, cond, nIncl, entry, done, provided >>

(***************************************************************************)
(* #include <library.h> in a group that is processed.  The library headers *)
(* are not part of the repository; they define none of the names of the    *)
(* repository's headers, so the step only advances.                        *)
(***************************************************************************)
SysIncludeLine ==
  /\ InFile
  /\ Cur.op = "sysinclude"
  /\ Active
  /\ pc' = pc + 1
  /\ UNCHANGED << macros, file, cond, nIncl, diag, passDefs, entry, done,
                  contributed, provided >>

(***************************************************************************)
(* A directive inside a skipped group is ignored.                          *)
(***************************************************************************)
SkippedLine ==
  /\ InFile
  /\ Cur.op \in {"define", "sysinclude"}
  /\ ~Active
  /\ pc' = pc + 1
  /\ UNCHANGED << macros, file, cond, nIncl, diag, passDefs, entry, done,
                  contributed, provided >>

(***************************************************************************)
(* #endif closes the innermost group.                                      *)
(***************************************************************************)
EndifLine ==
  /\ InFile
  /\ Cur.op = "endif"
  /\ cond # << >>
  /\ cond' = SubSeq(cond, 1, Len(cond) - 1)
  /\ pc' = pc + 1
  /\ UNCHANGED << macros, file, nIncl, diag, passDefs, entry, done,
                  contributed, provided >>

(***************************************************************************)
(* End of the header: back to the including file.  A pass that processed   *)
(* the header's body records what the header provides.                     *)
(***************************************************************************)
EndOfFile ==
  /\ file # None
  /\ pc = Len(Source(file)) + 1
  /\ file' = None
  /\ pc' = 0
  /\ done' = done \cup {file}
  /\ provided' = IF passDefs # << >>
                 THEN [provided EXCEPT ![file] = passDefs]
                 ELSE provided
  /\ UNCHANGED << macros, cond, nIncl, diag, passDefs, entry, contributed >>

(***************************************************************************)
(* The next translation unit (another sketch is compiled): the macro table *)
(* starts empty again.                                                     *)
(***************************************************************************)
NewTU ==
  /\ file = None
  /\ nIncl > 0
  /\ macros' = [n \in Names |-> Undef]
  /\ entry' = [n \in Names |-> Undef]
  /\ nIncl' = 0
  /\ diag' = {}
  /\ done' = {}
  /\ contributed' = {}
  /\ passDefs' = << >>
  /\ UNCHANGED << file, pc, cond, provided >>

Next ==
  \/ \E h \in Headers : Include(h)
  \/ TextLine
  \/ IfndefLine
  \/ DefineLine
  \/ SysIncludeLine
  \/ SkippedLine
  \/ EndifLine
  \/ EndOfFile
  \/ NewTU

Spec == Init /\ [][Next]_vars

(***************************************************************************)
(* The value of an integer literal as the compiler reads its spelling:     *)
(* optional sign, 0x prefix for hexadecimal, leading 0 for octal,          *)
(* decimal otherwise.                                                      *)
(***************************************************************************)
DigitVal(c) ==
  CASE c = "0" -> 0 [] c = "1" -> 1 [] c = "2" -> 2 [] c = "3" -> 3
    [] c = "4" -> 4 [] c = "5" -> 5 [] c = "6" -> 6 [] c = "7" -> 7
    [] c = "8" -> 8 [] c = "9" -> 9
    [] c \in {"a", "A"} -> 10 [] c \in {"b", "B"} -> 11
    [] c \in {"c", "C"} -> 12 [] c \in {"d", "D"} -> 13
    [] c \in {"e", "E"} -> 14 [] c \in {"f", "F"} -> 15

RECURSIVE Digits(_, _, _, _)
Digits(t, i, base, acc) ==
  IF i > Len(t) THEN acc
  ELSE Digits(t, i + 1, base, acc * base + DigitVal(SubSeq(t, i, i)))

Unsigned(t) ==
  IF Len(t) > 2 /\ SubSeq(t, 1, 2) \in {"0x", "0X"} THEN Digits(t, 3, 16, 0)
  ELSE IF Len(t) > 1 /\ SubSeq(t, 1, 1) = "0" THEN Digits(t, 2, 8, 0)
  ELSE Digits(t, 1, 10, 0)

IntValue(t) ==
  IF Len(t) > 1 /\ SubSeq(t, 1, 1) = "-"
  THEN 0 - Unsigned(SubSeq(t, 2, Len(t)))
  ELSE Unsigned(t)

(***************************************************************************)
(* What a header binds a name to, and whether a pass over the header has   *)
(* been recorded.                                                          *)
(***************************************************************************)
Built(h) == provided[h] # << >>

Bound(h, n) == Lookup(provided[h], n)

IsPrefix(a, b) == Len(a) <= Len(b) /\ SubSeq(b, 1, Len(a)) = a

(***************************************************************************)
(* Names and ranges the properties speak of.                               *)
(***************************************************************************)
PinNames ==
  { "LED_RED", "LED_GREEN", "LED_BLUE", "BUTTON_PIN", "OLED_SDA",
    "OLED_SCL", "DISTRESS_LED", "I2C_SDA", "I2C_SCL", "OLED_RESET" }

GpioRange == 0..39

I2cAddrRange == 8..119

PortRange == 1..65535

AllBuilt == \A h \in Headers : Built(h)

----------------------------------------------------------------------------
(***************************************************************************)
(* C1: in every header each macro name is the target of exactly one        *)
(* #define of that file.  In a pass that processes the header's body every *)
(* #define line of the file is executed, no name is defined twice during   *)
(* the pass, and each name the file defines occurs exactly once in what    *)
(* the header provides.                                                    *)
(***************************************************************************)
NoDup(defs) ==
  \A i, j \in DOMAIN defs : i # j => defs[i].name # defs[j].name

C1_DefinedOncePerFile ==
  /\ NoDup(passDefs)
  /\ \A h \in Headers :
       Built(h) =>
         /\ Len(provided[h]) = Cardinality(DefinesOf(h))
         /\ \A i \in DefinesOf(h) :
              Cardinality(Defines(provided[h], Source(h)[i].name)) = 1

C1_Witness == AllBuilt

(***************************************************************************)
(* C2 as stated: every constant naming a GPIO pin, OLED_RESET included,    *)
(* has a value in the ESP32 GPIO range 0..39 in every header defining it.  *)
(***************************************************************************)
C2_AllPinsInGpioRange ==
  \A h \in Headers : \A i \in DOMAIN provided[h] :
    provided[h][i].name \in PinNames =>
      IntValue(provided[h][i].body.text) \in GpioRange

(***************************************************************************)
(* C2 amended: every constant naming a GPIO pin other than OLED_RESET has  *)
(* a value in 0..39 in every header defining it; OLED_RESET, defined only  *)
(* by oled_driver.h, is -1, which is not a GPIO number.                    *)
(***************************************************************************)
C2_PinsInGpioRangeExceptReset ==
  \A h \in Headers : \A i \in DOMAIN provided[h] :
    /\ provided[h][i].name \in PinNames \ {"OLED_RESET"} =>
         IntValue(provided[h][i].body.text) \in GpioRange
    /\ provided[h][i].name = "OLED_RESET" =>
         h = "T6" /\ IntValue(provided[h][i].body.text) = -1

C2_Witness ==
  /\ AllBuilt
  /\ IntValue(Bound("T6", "OLED_RESET").text) \notin GpioRange
  /\ IntValue(Bound("T2G", "DISTRESS_LED").text) = 2

(***************************************************************************)
(* C3: the headers that define OLED_ADDR are Task2 config.h, Task3         *)
(* config.h and oled_driver.h, and in each of them its value is 0x3C = 60, *)
(* inside the 7-bit I2C address range 0x08..0x77.                          *)
(***************************************************************************)
C3_OledAddr ==
  \A h \in Headers :
    Built(h) =>
      /\ Bound(h, "OLED_ADDR") # Undef <=> h \in {"T2", "T3", "T6"}
      /\ Bound(h, "OLED_ADDR") # Undef =>
           /\ Bound(h, "OLED_ADDR").kind = "num"
           /\ IntValue(Bound(h, "OLED_ADDR").text) = 60
           /\ IntValue(Bound(h, "OLED_ADDR").text) \in I2cAddrRange

C3_Witness ==
  /\ Built("T2") /\ Built("T3") /\ Built("T6")
  /\ Bound("T3", "OLED_ADDR").text = "0x3C"

(***************************************************************************)
(* C4: within a translation unit a macro that is bound keeps its binding   *)
(* in every later state: no step undefines it or binds it to another       *)
(* replacement list.  (A step that lowers nIncl starts the next            *)
(* translation unit.)                                                      *)
(***************************************************************************)
C4_BindingsFixed ==
  [][ nIncl' >= nIncl =>
        \A n \in Names : macros[n] # Undef => macros'[n] = macros[n] ]_vars

C4_Witness ==
  /\ "T4" \in done
  /\ file = "T6"
  /\ pc = 20
  /\ macros["HIDDEN_MESSAGE"] = Str("lkjhgf")
  /\ macros["I2C_SCL"] = Num("22")

(***************************************************************************)
(* C5 as stated: the constants are unrelated; in particular WINDOW_TOPIC,  *)
(* CHALLENGE_CODE and HIDDEN_MESSAGE are mutually independent: none of     *)
(* them is spelled by naming another macro, equals another, or is built on *)
(* another as its leading part.                                            *)
(***************************************************************************)
TokenConstants ==
  { << "T3", "WINDOW_TOPIC" >>, << "T4", "CHALLENGE_CODE" >>,
    << "T4", "HIDDEN_MESSAGE" >> }

Related(a, b) ==
  \/ a.kind = "ident"
  \/ b.kind = "ident"
  \/ IsPrefix(a.text, b.text)
  \/ IsPrefix(b.text, a.text)

C5_TokensIndependent ==
  \A c, d \in TokenConstants :
    (c # d /\ Built(c[1]) /\ Built(d[1])) =>
      ~Related(Bound(c[1], c[2]), Bound(d[1], d[2]))

(***************************************************************************)
(* C5 amended: no constant is derived from another by the preprocessor     *)
(* (every replacement list is a literal or empty; none names a macro), but *)
(* the values are not independent: HIDDEN_MESSAGE equals CHALLENGE_CODE,   *)
(* and CHALLENGE_CODE is the leading part of WINDOW_TOPIC.                 *)
(***************************************************************************)
C5_LiteralsButRelated ==
  /\ \A h \in Headers : \A i \in DOMAIN provided[h] :
       provided[h][i].body.kind \in {"str", "num", "empty"}
  /\ Built("T4") =>
       Bound("T4", "HIDDEN_MESSAGE") = Bound("T4", "CHALLENGE_CODE")
  /\ (Built("T3") /\ Built("T4")) =>
       /\ IsPrefix(Bound("T4", "CHALLENGE_CODE").text,
                   Bound("T3", "WINDOW_TOPIC").text)
       /\ Bound("T4", "CHALLENGE_CODE") # Bound("T3", "WINDOW_TOPIC")

C5_Witness ==
  /\ Built("T3") /\ Built("T4")
  /\ Bound("T4", "HIDDEN_MESSAGE").kind = "str"
  /\ Bound("T3", "WINDOW_TOPIC").kind = "str"

(***************************************************************************)
(* C6: WINDOW_TOPIC of Task3 config.h is CHALLENGE_CODE of Task4 config.h  *)
(* followed by "_window".                                                  *)
(***************************************************************************)
C6_WindowTopicFromCode ==
  (Built("T3") /\ Built("T4")) =>
    /\ Bound("T3", "WINDOW_TOPIC").kind = "str"
    /\ Bound("T4", "CHALLENGE_CODE").kind = "str"
    /\ Bound("T3", "WINDOW_TOPIC").text =
         Bound("T4", "CHALLENGE_CODE").text \o "_window"

C6_Witness ==
  /\ Built("T3") /\ Built("T4")
  /\ Len(Bound("T3", "WINDOW_TOPIC").text) = 13
  /\ Len(Bound("T4", "CHALLENGE_CODE").text) = 6

(***************************************************************************)
(* C7: constants shared between headers agree.  MQTT_BROKER, MQTT_PORT     *)
(* (1883, a valid port), TEAM_ID and REEF_ID are the same in the four      *)
(* config.h files; the LED and button pins are the same in Task2 and       *)
(* Task3; the display bus pins are the same in Task2, Task3 and Task6.     *)
(***************************************************************************)
SameIn(g, m, h, n) ==
  LET a == Bound(g, m)
      b == Bound(h, n)
  IN  /\ a # Undef
      /\ a.kind = b.kind
      /\ IF a.kind = "num"
         THEN IntValue(a.text) = IntValue(b.text)
         ELSE a.text = b.text

C7_SharedConstantsAgree ==
  /\ \A g, h \in ConfigHeaders :
       (Built(g) /\ Built(h)) =>
         /\ \A n \in {"MQTT_BROKER", "MQTT_PORT", "TEAM_ID", "REEF_ID"} :
              SameIn(g, n, h, n)
         /\ IntValue(Bound(g, "MQTT_PORT").text) = 1883
         /\ IntValue(Bound(g, "MQTT_PORT").text) \in PortRange
  /\ (Built("T2") /\ Built("T3")) =>
       \A n \in {"LED_RED", "LED_GREEN", "LED_BLUE", "BUTTON_PIN",
                 "OLED_SDA", "OLED_SCL"} :
         SameIn("T2", n, "T3", n)
  /\ \A g \in {"T2", "T3"} :
       (Built(g) /\ Built("T6")) =>
         /\ SameIn(g, "OLED_SDA", "T6", "I2C_SDA")
         /\ SameIn(g, "OLED_SCL", "T6", "I2C_SCL")

C7_Witness ==
  /\ AllBuilt
  /\ Bound("T2", "WIFI_SSID") # Bound("T2G", "WIFI_SSID")
  /\ Bound("T4", "MQTT_PORT") = Num("1883")

(***************************************************************************)
(* C8: within each header the GPIO pin constants are pairwise distinct.    *)
(***************************************************************************)
C8_PinsDistinct ==
  \A h \in Headers : \A i, j \in DOMAIN provided[h] :
    ( /\ i # j
      /\ provided[h][i].name \in PinNames
      /\ provided[h][j].name \in PinNames ) =>
      IntValue(provided[h][i].body.text) # IntValue(provided[h][j].body.text)

C8_Witness ==
  /\ Built("T2") /\ Built("T3") /\ Built("T6")
  /\ Cardinality({ i \in DOMAIN provided["T3"] :
                     provided["T3"][i].name \in PinNames }) = 6
  /\ Cardinality({ i \in DOMAIN provided["T6"] :
                     provided["T6"][i].name \in PinNames }) = 3

(***************************************************************************)
(* C9: inclusion is idempotent and never redefines a macro, for every      *)
(* sequence of #include of the five headers in one translation unit.  No   *)
(* redefinition is diagnosed; a pass over a header that was already        *)
(* included leaves the macro table as it found it; at most one config.h    *)
(* contributes definitions, so the task-specific constants of every other  *)
(* config.h stay undefined; OLED_ADDR, the one name bound by both guards,  *)
(* keeps one value.                                                        *)
(***************************************************************************)
OnlyFrom(n, h) == macros[n] # Undef => contributed \cap ConfigHeaders = {h}

C9_InclusionIdempotent ==
  /\ diag = {}
  /\ file \in done => macros = entry
  /\ Cardinality(contributed \cap ConfigHeaders) <= 1
  /\ (done \cap ConfigHeaders # {} /\ file \in ConfigHeaders) =>
       macros = entry
  /\ OnlyFrom("WINDOW_TOPIC", "T3")
  /\ OnlyFrom("CHALLENGE_CODE", "T4")
  /\ OnlyFrom("DISTRESS_LED", "T2G")
  /\ \A h \in {"T2", "T3"} :
       ({h, "T6"} \subseteq contributed /\ file = None) =>
         macros["OLED_ADDR"] = Num("0x3C")

C9_Witness ==
  /\ nIncl = 3
  /\ file = None
  /\ done = {"T2", "T3", "T6"}
  /\ contributed = {"T2", "T6"}
  /\ macros["WINDOW_TOPIC"] = Undef
  /\ macros["OLED_ADDR"] = Num("0x3C")

TypeOK ==
  /\ file \in Headers \cup {None}
  /\ nIncl \in 0..MaxIncludes
  /\ diag \subseteq Names
====
